---- MODULE Spec2Model ----
(***************************************************************************)
(* Model of the distributed abacus microservice (src/app.py).              *)
(*                                                                         *)
(* Several nodes run the same FastAPI application against one Redis key,   *)
(* "abacus:sum".  A node starts with lifespan() (connect, then create the  *)
(* key when it reads None), serves add / get / reset requests, and may be  *)
(* shut down and started again.  Every `await` on a Redis call is one      *)
(* step of the model: between two awaits a coroutine runs alone, and the   *)
(* Redis server executes one command at a time.                            *)
(*                                                                         *)
(* Redis itself is not part of the repository.  Its commands are modelled  *)
(* as documented: WATCH marks the connection as watching the key, every    *)
(* write to the key by any client marks every watching connection dirty,   *)
(* EXEC on a dirty connection applies nothing and raises WatchError, and   *)
(* EXEC, like UNWATCH, ends the watch.  A store call that fails at the     *)
(* connection level raises in the client and never reaches the server.     *)
(***************************************************************************)
EXTENDS Integers, Sequences, FiniteSets

VARIABLES
    abacus_sum,     \* the key "abacus:sum": [present, value]
    pc,             \* per task (a node and the request it serves): position
    number,         \* add_to_sum: the argument
    current_sum,    \* add_to_sum: the value read under the watch
    new_sum,        \* add_to_sum: the value queued by pipe.set
    retry_count,    \* add_to_sum: conflicts seen by the current call
    pipe,           \* add_to_sum: the pipeline object: [open, attempts]
    stats,          \* health_check: the keys of the mapping get_stats returned
    watching,       \* the pipeline connection: "none", "clean", "dirty"
    result,         \* outcome of the task's last finished operation
    ops_left,       \* operations that may still be started (model budget)
    failures_left,  \* store calls that may still fail (model budget)
    base,           \* history: value stored by the last write that was not an add
    commits,        \* history: the add commits applied since that write
    applied,        \* history: commits applied by the task's current add call
    stale,          \* history: another actor wrote since the task's read
    stale_commit,   \* history: some commit wrote a value computed from a stale read
    last_write,     \* history: the latest write to the key: [op, replaced]
    alone           \* history: no other task took a step since the task's startup began

vars == <<abacus_sum, pc, number, current_sum, new_sum, retry_count, pipe, stats,
          watching, result, ops_left, failures_left, base, commits, applied, stale,
          stale_commit, last_write, alone>>

locals == <<number, current_sum, new_sum, retry_count, pipe, stats>>
history == <<base, commits, applied, stale, stale_commit, last_write>>

----------------------------------------------------------------------------
(* Bounds of the model. *)

NumNodes == 2
MaxOps == 2
MaxFailures == 1
NumCallers == 3
ExtraRetries == 2
NumClients == 2
MaxRequests == 3

(* The numbers a client may post, and the values the counter may hold when
   a run that starts with a populated store begins. *)
Numbers == {1, 2}
InitialValues == {0, 5}

----------------------------------------------------------------------------
(* Constants and helpers of the program. *)

max_retries == 100

Tasks == DOMAIN pc

None == [present |-> FALSE, value |-> 0]

Stored(v) == [present |-> TRUE, value |-> v]

(* The locals of add_to_sum are gone once the call has returned or raised. *)
Discard(f, n) == [f EXCEPT ![n] = 0]

NoResult == [op |-> "none", status |-> "none", value |-> 0]

Ok(op, v) == [op |-> op, status |-> "ok", value |-> v]

StoreErrorAsContention(op) == [op |-> op, status |-> "503", value |-> 0]

(* HTTPException(status_code=500, ...) *)
StoreUnavailable(op) == [op |-> op, status |-> "500", value |-> 0]

(* HTTPException(status_code=503, detail="Max retries exceeded - high contention") *)
ContentionExhausted(op) == [op |-> op, status |-> "503", value |-> 0]

ReadsZero(v) == 0

(* int(value) if value else 0: the stored string of an integer is never
   empty, so only an absent key (None) reads as 0. *)
ToInt(v) == IF v.present THEN v.value ELSE 0

NewSumOverwrites(cur, n) == n

(* new_sum = current_sum + number *)
NewSum(cur, n) == cur + n

OuterLoopNeverEntered(rc) == FALSE

(* No pipeline object: before the `async with` of add_to_sum and after it. *)
NoPipe == [open |-> FALSE, attempts |-> 0]

(* self.redis_client.pipeline(transaction=True): a new pipeline object, on
   which no attempt has been made yet. *)
NewPipe == [open |-> TRUE, attempts |-> 0]

(* An attempt (WATCH, GET, MULTI, SET, EXEC) begins on pipeline object p. *)
Attempt(p) == [p EXCEPT !.attempts = @ + 1]

(* while retry_count < max_retries *)
OuterLoopTest(rc) == rc < max_retries

ContinueWithoutWatch == "add_get"

ContinueWithoutRead == "add_exec"

(* `continue` in the WatchError handler continues the innermost loop, the
   `while True` of line 81: the next attempt starts at pipe.watch and the
   test of the outer loop is not evaluated again. *)
ContinueTarget == "add_watch"

ReturnsValueRead(cur, new) == cur

(* return new_sum *)
ReturnValue(cur, new) == new

CommitWithoutReturn == "add_watch"

(* return new_sum: the call is over once its transaction has been applied. *)
AfterCommit == "idle"

ExecUnwatched(w) == TRUE

(* EXEC applies the queued SET iff the watched key was not written since WATCH. *)
ExecSucceeds(w) == w = "clean"

NoConflictDetection(w) == w

(* A write to the key by any client marks every watching connection dirty. *)
Touch(w) == [m \in DOMAIN w |-> IF w[m] = "clean" THEN "dirty" ELSE w[m]]

(* The keys of the mapping get_stats builds from the reply to INFO. *)
StatsKeys == {"connected_clients", "total_commands_processed", "used_memory_human"}

StatsPropagatesError == FALSE

(* get_stats: except Exception: ...; return {} *)
StatsSwallowsError == TRUE

(* The response of health_check. *)
Health(connected, sum) ==
    [op |-> "health", status |-> IF connected THEN "healthy" ELSE "unhealthy",
     value |-> sum]

ResetLeavesOne == Stored(1)

(* redis_client.set("abacus:sum", 0) in reset_sum *)
ResetWrite == Stored(0)

LifespanAlwaysInits(v) == TRUE

(* if await redis_client.get("abacus:sum") is None *)
LifespanNeedsInit(v) == ~v.present

(* History: a write made by operation op, and what the key held before it. *)
Wrote(op) == [op |-> op, replaced |-> abacus_sum]

RECURSIVE SumNumbers(_)
SumNumbers(s) == IF s = <<>> THEN 0 ELSE s[1].number + SumNumbers(Tail(s))

(* Whether a store call is answered (TRUE) or fails at the connection level
   (FALSE): any call may fail, as long as the budget of the run allows. *)
Answers == IF failures_left > 0 THEN {TRUE, FALSE} ELSE {TRUE}

Charge(up) == failures_left' = IF up THEN failures_left ELSE failures_left - 1

Quiescent(n) == pc[n] \in {"down", "idle"}

(* History bookkeeping of a step of a startup of task n: no other task has
   been alone since its own startup began. *)
Disturb(n) == [m \in Tasks |-> IF m = n THEN alone[m] ELSE FALSE]

(* History bookkeeping of a step of a request served by task n. *)
Serving(n) == [m \in Tasks |-> FALSE]

(* History bookkeeping of a write by task n: the value another task read
   under its watch, and has not yet tried to commit, is now stale. *)
Outdate(n) ==
    [m \in Tasks |-> IF m # n /\ pc[m] = "add_exec" THEN TRUE ELSE stale[m]]

----------------------------------------------------------------------------
(* lifespan(): startup and shutdown of a node. *)

(* redis_manager.connect(): the ping must succeed, otherwise startup raises
   and the node stays down. *)
LifespanConnect(n) ==
    /\ pc[n] = "down"
    /\ UNCHANGED failures_left
    /\ pc' = [pc EXCEPT ![n] = "lifespan_get"]
    /\ alone' = [Disturb(n) EXCEPT ![n] = \A m \in Tasks \ {n} : Quiescent(m)]
    /\ UNCHANGED <<abacus_sum, locals, watching, result, ops_left, history>>

(* if await redis_client.get("abacus:sum") is None: ... *)
LifespanGet(n) ==
    /\ pc[n] = "lifespan_get"
    /\ \E up \in Answers :
          /\ Charge(up)
          /\ IF up
                THEN IF LifespanNeedsInit(abacus_sum)
                       THEN pc' = [pc EXCEPT ![n] = "lifespan_set"]
                       ELSE pc' = [pc EXCEPT ![n] = "idle"]
                ELSE pc' = [pc EXCEPT ![n] = "down"]
    /\ alone' = Disturb(n)
    /\ UNCHANGED <<abacus_sum, locals, watching, result, ops_left, history>>

(* await redis_client.set("abacus:sum", 0), then yield: the node serves. *)
LifespanSet(n) ==
    /\ pc[n] = "lifespan_set"
    /\ \E up \in Answers :
          /\ Charge(up)
          /\ IF up
                THEN /\ abacus_sum' = Stored(0)
                     /\ watching' = Touch(watching)
                     /\ pc' = [pc EXCEPT ![n] = "idle"]
                     /\ base' = 0
                     /\ commits' = <<>>
                     /\ stale' = Outdate(n)
                     /\ last_write' = Wrote("startup")
                ELSE /\ pc' = [pc EXCEPT ![n] = "down"]
                     /\ UNCHANGED <<abacus_sum, watching, base, commits, stale,
                                    last_write>>
    /\ alone' = Disturb(n)
    /\ UNCHANGED <<locals, result, ops_left, applied, stale_commit>>

(* The part of lifespan() after the yield: redis_manager.disconnect(). *)
Shutdown(n) ==
    /\ pc[n] = "idle"
    /\ ops_left > 0
    /\ pc' = [pc EXCEPT ![n] = "down"]
    /\ ops_left' = ops_left - 1
    /\ alone' = Serving(n)
    /\ UNCHANGED <<abacus_sum, locals, watching, result, history>>
    /\ UNCHANGED failures_left

----------------------------------------------------------------------------
(* RedisManager.add_to_sum, called by add_number. *)

(* POST /abacus/number arrives: retry_count = 0, the outer loop is entered
   and the pipeline is opened; the coroutine runs to its first await. *)
AddStart(n, num) ==
    /\ pc[n] = "idle"
    /\ ops_left > 0
    /\ ops_left' = ops_left - 1
    /\ number' = [number EXCEPT ![n] = num]
    /\ retry_count' = [retry_count EXCEPT ![n] = 0]
    /\ pipe' = [pipe EXCEPT ![n] = IF OuterLoopTest(0) THEN NewPipe ELSE NoPipe]
    /\ UNCHANGED <<current_sum, new_sum, stats>>
    /\ applied' = [applied EXCEPT ![n] = 0]
    /\ IF OuterLoopTest(0)
          THEN /\ pc' = [pc EXCEPT ![n] = "add_watch"]
               /\ result' = [result EXCEPT ![n] = NoResult]
          ELSE /\ pc' = [pc EXCEPT ![n] = "idle"]
               /\ result' = [result EXCEPT ![n] = ContentionExhausted("add")]
    /\ alone' = Serving(n)
    /\ UNCHANGED <<abacus_sum, watching, base, commits, stale, stale_commit,
                   last_write>>
    /\ UNCHANGED failures_left

(* except Exception: raise HTTPException(status_code=500, ...); leaving the
   `async with` block resets the pipeline, which ends its watch. *)
AddFails(n) ==
    /\ pc' = [pc EXCEPT ![n] = "idle"]
    /\ result' = [result EXCEPT ![n] = StoreUnavailable("add")]
    /\ watching' = [watching EXCEPT ![n] = "none"]
    /\ stale' = [stale EXCEPT ![n] = FALSE]
    /\ number' = Discard(number, n)
    /\ current_sum' = Discard(current_sum, n)
    /\ new_sum' = Discard(new_sum, n)
    /\ retry_count' = Discard(retry_count, n)
    /\ pipe' = [pipe EXCEPT ![n] = NoPipe]
    /\ UNCHANGED <<abacus_sum, stats, base, commits, applied, stale_commit, last_write>>

(* await pipe.watch("abacus:sum") *)
AddWatch(n) ==
    /\ pc[n] = "add_watch"
    /\ \E up \in Answers :
          /\ Charge(up)
          /\ IF up
                THEN /\ watching' = [watching EXCEPT ![n] = "clean"]
                     /\ pc' = [pc EXCEPT ![n] = "add_get"]
                     /\ pipe' = [pipe EXCEPT ![n] = Attempt(@)]
                     /\ UNCHANGED <<abacus_sum, number, current_sum, new_sum,
                                    retry_count, stats, result, history>>
                ELSE AddFails(n)
    /\ alone' = Serving(n)
    /\ UNCHANGED <<ops_left>>

(* current = await pipe.get("abacus:sum"), then the new sum is computed and
   MULTI and SET are queued in the pipeline (no call to the server). *)
AddGet(n) ==
    /\ pc[n] = "add_get"
    /\ \E up \in Answers :
          /\ Charge(up)
          /\ IF up
                THEN /\ current_sum' = [current_sum EXCEPT ![n] = ToInt(abacus_sum)]
                     /\ new_sum' = [new_sum EXCEPT ![n] =
                                      NewSum(ToInt(abacus_sum), number[n])]
                     /\ pc' = [pc EXCEPT ![n] = "add_exec"]
                     /\ stale' = [stale EXCEPT ![n] = FALSE]
                     /\ UNCHANGED <<abacus_sum, number, retry_count, pipe, stats, watching,
                                    result,
                                    base, commits, applied, stale_commit, last_write>>
                ELSE AddFails(n)
    /\ alone' = Serving(n)
    /\ UNCHANGED <<ops_left>>

(* await pipe.execute(): either the SET is applied and new_sum returned, or
   WatchError is raised and handled: retry_count += 1, then the sleep. *)
AddExec(n) ==
    /\ pc[n] = "add_exec"
    /\ \E up \in Answers :
          /\ Charge(up)
          /\ IF ~up
                THEN AddFails(n)
                ELSE IF ExecSucceeds(watching[n])
                       THEN /\ abacus_sum' = Stored(new_sum[n])
                            /\ watching' = [Touch(watching) EXCEPT ![n] = "none"]
                            /\ pc' = [pc EXCEPT ![n] = AfterCommit]
                            /\ result' = [result EXCEPT ![n] =
                                  Ok("add", ReturnValue(current_sum[n], new_sum[n]))]
                            /\ commits' = Append(commits,
                                  [task |-> n, number |-> number[n],
                                   read |-> current_sum[n], new_sum |-> new_sum[n]])
                            /\ applied' = [applied EXCEPT ![n] = @ + 1]
                            /\ stale_commit' = (stale_commit \/ stale[n])
                            /\ stale' = [Outdate(n) EXCEPT ![n] = FALSE]
                            /\ number' = Discard(number, n)
                            /\ current_sum' = Discard(current_sum, n)
                            /\ new_sum' = Discard(new_sum, n)
                            /\ retry_count' = Discard(retry_count, n)
                            /\ pipe' = [pipe EXCEPT ![n] = NoPipe]
                            /\ last_write' = Wrote("add")
                            /\ UNCHANGED <<base, stats>>
                       ELSE /\ retry_count' = [retry_count EXCEPT ![n] = @ + 1]
                            /\ watching' = [watching EXCEPT ![n] = "none"]
                            /\ pc' = [pc EXCEPT ![n] = "add_sleep"]
                            /\ stale' = [stale EXCEPT ![n] = FALSE]
                            /\ UNCHANGED <<abacus_sum, number, current_sum, new_sum,
                                           pipe, stats, result, base, commits, applied, stale_commit,
                                           last_write>>
    /\ alone' = Serving(n)
    /\ UNCHANGED ops_left

(* await asyncio.sleep(self.retry_delay); continue *)
AddSleep(n) ==
    /\ pc[n] = "add_sleep"
    /\ pc' = [pc EXCEPT ![n] = ContinueTarget]
    /\ alone' = Serving(n)
    /\ UNCHANGED <<abacus_sum, locals, watching, result, ops_left, history>>
    /\ UNCHANGED failures_left

----------------------------------------------------------------------------
(* RedisManager.get_sum, called by get_sum (GET /abacus/sum). *)

GetStart(n) ==
    /\ pc[n] = "idle"
    /\ ops_left > 0
    /\ ops_left' = ops_left - 1
    /\ pc' = [pc EXCEPT ![n] = "get_sum"]
    /\ result' = [result EXCEPT ![n] = NoResult]
    /\ alone' = Serving(n)
    /\ UNCHANGED <<abacus_sum, locals, watching, history>>
    /\ UNCHANGED failures_left

(* value = await redis_client.get("abacus:sum"); return int(value) if value else 0 *)
GetSum(n) ==
    /\ pc[n] = "get_sum"
    /\ pc' = [pc EXCEPT ![n] = "idle"]
    /\ \E up \in Answers :
          /\ Charge(up)
          /\ result' = [result EXCEPT ![n] =
                           IF up THEN Ok("get", ToInt(abacus_sum))
                                 ELSE StoreUnavailable("get")]
    /\ alone' = Serving(n)
    /\ UNCHANGED <<abacus_sum, locals, watching, ops_left, history>>

----------------------------------------------------------------------------
(* RedisManager.reset_sum, called by reset_sum (DELETE /abacus/sum). *)

ResetStart(n) ==
    /\ pc[n] = "idle"
    /\ ops_left > 0
    /\ ops_left' = ops_left - 1
    /\ pc' = [pc EXCEPT ![n] = "reset_sum"]
    /\ result' = [result EXCEPT ![n] = NoResult]
    /\ alone' = Serving(n)
    /\ UNCHANGED <<abacus_sum, locals, watching, history>>
    /\ UNCHANGED failures_left

(* await redis_client.set("abacus:sum", 0) *)
ResetSum(n) ==
    /\ pc[n] = "reset_sum"
    /\ pc' = [pc EXCEPT ![n] = "idle"]
    /\ \E up \in Answers :
          /\ Charge(up)
          /\ IF up
                THEN /\ abacus_sum' = ResetWrite
                     /\ watching' = Touch(watching)
                     /\ result' = [result EXCEPT ![n] = Ok("reset", 0)]
                     /\ base' = 0
                     /\ commits' = <<>>
                     /\ stale' = Outdate(n)
                     /\ last_write' = Wrote("reset")
                ELSE /\ result' = [result EXCEPT ![n] = StoreUnavailable("reset")]
                     /\ UNCHANGED <<abacus_sum, watching, base, commits, stale,
                                    last_write>>
    /\ alone' = Serving(n)
    /\ UNCHANGED <<locals, ops_left, applied, stale_commit>>

----------------------------------------------------------------------------
(* health_check (GET /health): get_sum, then RedisManager.get_stats. *)

HealthStart(n) ==
    /\ pc[n] = "idle"
    /\ ops_left > 0
    /\ ops_left' = ops_left - 1
    /\ pc' = [pc EXCEPT ![n] = "health_get"]
    /\ result' = [result EXCEPT ![n] = NoResult]
    /\ alone' = Serving(n)
    /\ UNCHANGED <<abacus_sum, locals, watching, history>>
    /\ UNCHANGED failures_left

(* current_sum = await redis_manager.get_sum(); the HTTPException that
   get_sum raises on a failure is caught by health_check's own handler. *)
HealthGet(n) ==
    /\ pc[n] = "health_get"
    /\ \E up \in Answers :
          /\ Charge(up)
          /\ IF up
                THEN /\ current_sum' = [current_sum EXCEPT ![n] = ToInt(abacus_sum)]
                     /\ pc' = [pc EXCEPT ![n] = "health_stats"]
                     /\ UNCHANGED <<result, stats>>
                ELSE /\ pc' = [pc EXCEPT ![n] = "idle"]
                     /\ result' = [result EXCEPT ![n] = Health(FALSE, -1)]
                     /\ stats' = [stats EXCEPT ![n] = {}]
                     /\ UNCHANGED current_sum
    /\ alone' = Serving(n)
    /\ UNCHANGED <<abacus_sum, number, new_sum, retry_count, pipe, watching, ops_left,
                   history>>

(* stats = await redis_manager.get_stats(): info = await redis_client.info();
   a failure of that call is logged and answered with the empty mapping.
   Then the response is built. *)
HealthStats(n) ==
    /\ pc[n] = "health_stats"
    /\ pc' = [pc EXCEPT ![n] = "idle"]
    /\ \E up \in Answers :
          /\ Charge(up)
          /\ IF up \/ StatsSwallowsError
                THEN /\ stats' = [stats EXCEPT ![n] = IF up THEN StatsKeys ELSE {}]
                     /\ result' = [result EXCEPT ![n] = Health(TRUE, current_sum[n])]
                ELSE /\ stats' = [stats EXCEPT ![n] = {}]
                     /\ result' = [result EXCEPT ![n] = Health(FALSE, -1)]
    /\ current_sum' = Discard(current_sum, n)
    /\ alone' = Serving(n)
    /\ UNCHANGED <<abacus_sum, number, new_sum, retry_count, pipe, watching, ops_left,
                   history>>

----------------------------------------------------------------------------
(* The service: NumNodes nodes, none started, the key not yet created. *)

Nodes == 1..NumNodes

InitTasks(T, p, budget, failures) ==
    /\ pc = [n \in T |-> p]
    /\ number = [n \in T |-> 0]
    /\ current_sum = [n \in T |-> 0]
    /\ new_sum = [n \in T |-> 0]
    /\ retry_count = [n \in T |-> 0]
    /\ stats = [n \in T |-> {}]
    /\ pipe = [n \in T |-> NoPipe]
    /\ watching = [n \in T |-> "none"]
    /\ result = [n \in T |-> NoResult]
    /\ ops_left = budget
    /\ applied = [n \in T |-> 0]
    /\ stale = [n \in T |-> FALSE]
    /\ alone = [n \in T |-> FALSE]
    /\ commits = <<>>
    /\ stale_commit = FALSE
    /\ last_write = [op |-> "none", replaced |-> None]
    /\ failures_left = failures

Init ==
    /\ InitTasks(Nodes, "down", MaxOps, MaxFailures)
    /\ abacus_sum = None
    /\ base = 0

Next ==
    \E n \in Nodes :
          \/ LifespanConnect(n)
          \/ LifespanGet(n)
          \/ LifespanSet(n)
          \/ Shutdown(n)
          \/ \E num \in Numbers : AddStart(n, num)
          \/ AddWatch(n)
          \/ AddGet(n)
          \/ AddExec(n)
          \/ AddSleep(n)
          \/ GetStart(n)
          \/ GetSum(n)
          \/ ResetStart(n)
          \/ ResetSum(n)
          \/ HealthStart(n)
          \/ HealthGet(n)
          \/ HealthStats(n)

Spec == Init /\ [][Next]_vars

----------------------------------------------------------------------------
(* Concurrent increments: NumCallers started nodes each serve one POST
   /abacus/number against a counter that holds a value; the store stays
   reachable and nothing else writes the key. *)

Callers == 1..NumCallers

(* The task has not been asked to add anything yet. *)
NotCalled(n) == pc[n] = "idle" /\ result[n] = NoResult

InitAdds ==
    /\ InitTasks(Callers, "idle", NumCallers, 0)
    /\ \E v \in InitialValues : abacus_sum = Stored(v) /\ base = v

AddStep(n) == AddWatch(n) \/ AddGet(n) \/ AddExec(n) \/ AddSleep(n)

NextAdds ==
    \E n \in Callers :
        \/ \E num \in Numbers : NotCalled(n) /\ AddStart(n, num)
        \/ AddWatch(n)
        \/ AddGet(n)
        \/ AddExec(n)
        \/ AddSleep(n)

SpecAdds == InitAdds /\ [][NextAdds]_vars

(* The same with every caller posting the number 1.  The asyncio event loop
   runs every ready coroutine and the server answers every command, hence
   the weak fairness of every step of a call that has started. *)
NextOnes ==
    \E n \in Callers :
        \/ NotCalled(n) /\ AddStart(n, 1)
        \/ AddWatch(n)
        \/ AddGet(n)
        \/ AddExec(n)
        \/ AddSleep(n)

SpecOnes == InitAdds /\ [][NextOnes]_vars

FairOnes == SpecOnes /\ \A n \in Callers : WF_vars(AddStep(n))

----------------------------------------------------------------------------
(* Sustained contention: one node serves a single POST /abacus/number while
   another serves DELETE /abacus/sum again and again, as often as the
   budget of the run allows. *)

Contenders == 1..2

IsAdder(n) == \A m \in Contenders : n <= m

InitRetry ==
    /\ InitTasks(Contenders, "idle", max_retries + ExtraRetries, 0)
    /\ abacus_sum = Stored(0)
    /\ base = 0

NextRetry ==
    \E n \in Contenders :
        \/ \E num \in Numbers : IsAdder(n) /\ NotCalled(n) /\ AddStart(n, num)
        \/ AddWatch(n)
        \/ AddGet(n)
        \/ AddExec(n)
        \/ AddSleep(n)
        \/ ~IsAdder(n) /\ ResetStart(n)
        \/ ResetSum(n)

SpecRetry == InitRetry /\ [][NextRetry]_vars

FairRetry == SpecRetry /\ \A n \in Contenders : WF_vars(AddStep(n) \/ ResetSum(n))

----------------------------------------------------------------------------
(* Mixed traffic: NumClients started nodes serve MaxRequests requests of
   any kind, one after another or concurrently, against a counter that
   holds a value; MaxFailures of their store calls may fail. *)

Clients == 1..NumClients

InitRequests ==
    /\ InitTasks(Clients, "idle", MaxRequests, MaxFailures)
    /\ \E v \in InitialValues : abacus_sum = Stored(v) /\ base = v

NextRequests ==
    \E n \in Clients :
        \/ \E num \in Numbers : AddStart(n, num)
        \/ AddWatch(n)
        \/ AddGet(n)
        \/ AddExec(n)
        \/ AddSleep(n)
        \/ GetStart(n)
        \/ GetSum(n)
        \/ ResetStart(n)
        \/ ResetSum(n)
        \/ HealthStart(n)
        \/ HealthGet(n)
        \/ HealthStats(n)

SpecRequests == InitRequests /\ [][NextRequests]_vars

----------------------------------------------------------------------------
(* Properties. *)

AttemptPcs == {"add_watch", "add_get", "add_exec"}

AddPcs == AttemptPcs \cup {"add_sleep"}

StoreCallPcs == AttemptPcs \cup {"get_sum", "reset_sum"}

Returned(n) == pc[n] = "idle" /\ result[n].op = "add" /\ result[n].status = "ok"

(* The request whose store call is made at position p. *)
OpAt(p) == IF p = "get_sum" THEN "get" ELSE IF p = "reset_sum" THEN "reset" ELSE "add"

(* C1. No lost updates: once every one of N concurrent add(1) calls against
   a counter holding V has returned successfully, with no reset and no
   startup write, the stored counter, which is what get() returns, is V + N. *)
C1_NoLostUpdates ==
    (\A n \in Tasks : Returned(n) \/ NotCalled(n))
    => /\ abacus_sum.present
       /\ ToInt(abacus_sum) = base + Cardinality({n \in Tasks : Returned(n)})

C1_Witness ==
    /\ \A n \in Tasks : Returned(n)
    /\ \A i \in 1..Len(commits) : commits[i].number = 1
    /\ base = 5
    /\ ToInt(abacus_sum) = 5 + NumCallers

(* C2. Retry exhaustion: an add call whose commits all end in Conflict
   raises the contention-exhausted error after exactly max_retries commit
   attempts: it has never seen more than max_retries conflicts, and with
   max_retries conflicts behind it, it does not start another attempt. *)
C2_RetryExhaustion ==
    \A n \in Tasks :
        /\ retry_count[n] <= max_retries
        /\ pc[n] \in AttemptPcs => retry_count[n] < max_retries

(* C3. Counter invariant: the stored counter is the sum of the numbers of
   the add calls whose commit succeeded since the most recent write of 0
   (a reset, or the write that created the key), and no commit has written a
   value computed from a read that predates another actor's write. *)
C3_CounterInvariant ==
    /\ ToInt(abacus_sum) = base + SumNumbers(commits)
    /\ base = 0
    /\ ~stale_commit
    /\ commits # <<>> => abacus_sum.present

C3_Witness ==
    /\ Len(commits) >= 1
    /\ \E n \in Tasks : retry_count[n] >= 1 /\ pc[n] = "add_exec"

(* C4. Conflict convergence: when two attempts of different calls have read
   the same value under their watches and one of them commits, the other's
   watch is dirty and it has written nothing; its EXEC then applies nothing
   and counts a conflict; after the delay it watches the key again, and the
   value it then reads is the value the key holds at that moment, so every
   commit has read the value written by the commit before it. *)
Contending(n, m) ==
    /\ n # m
    /\ pc[n] = "add_exec" /\ pc[m] = "add_exec"
    /\ watching[n] = "clean" /\ watching[m] = "clean"
    /\ current_sum[n] = current_sum[m]

C4_ConflictConvergence ==
    [][\A n, m \in Tasks :
        /\ (Contending(n, m) /\ applied'[n] > applied[n])
              => /\ watching'[m] = "dirty"
                 /\ applied'[m] = applied[m]
                 /\ pc'[m] = "add_exec"
        /\ (pc[m] = "add_exec" /\ watching[m] = "dirty" /\ pc'[m] # pc[m])
              => /\ abacus_sum' = abacus_sum
                 /\ applied'[m] = applied[m]
                 /\ failures_left' = failures_left
                      => /\ pc'[m] = "add_sleep"
                         /\ retry_count'[m] = retry_count[m] + 1
        /\ (pc[m] = "add_sleep" /\ pc'[m] # pc[m]) => pc'[m] = "add_watch"
        /\ (pc[m] = "add_get" /\ pc'[m] = "add_exec")
              => /\ watching[m] # "none"
                 /\ current_sum'[m] = ToInt(abacus_sum)
        /\ \A i \in 1..Len(commits') :
              commits'[i].read = IF i = 1 THEN base' ELSE commits'[i - 1].new_sum
      ]_vars

C4_Witness ==
    \E m \in Tasks :
        /\ pc[m] = "add_exec"
        /\ retry_count[m] >= 1
        /\ commits # <<>>
        /\ commits[Len(commits)].task # m
        /\ current_sum[m] = commits[Len(commits)].new_sum
        /\ current_sum[m] # commits[Len(commits)].read

(* C5. Linearizable return values: with no reset, the values returned by the
   successful add calls, in the order of their commits, are the prefix sums
   of the committed numbers on top of the initial value, hence distinct. *)
C5_PrefixSumChain ==
    \A i \in 1..Len(commits) :
        /\ commits[i].new_sum = base + SumNumbers(SubSeq(commits, 1, i))
        /\ result[commits[i].task] = Ok("add", commits[i].new_sum)
        /\ \A j \in 1..Len(commits) : j # i => commits[j].new_sum # commits[i].new_sum

C5_Witness ==
    /\ Len(commits) = 3
    /\ {commits[i].number : i \in 1..3} = {1, 2}
    /\ base = 0
    /\ ToInt(abacus_sum) = SumNumbers(commits)

(* C6. Bootstrap under multi-node interleaving: a startup write never
   overwrites a value that is present, so the write of a starting node
   leaves a counter that holds a value as it is. *)
C6_StartupNeverErases ==
    [][\A n \in Tasks :
        (pc[n] = "lifespan_set" /\ pc'[n] # pc[n] /\ abacus_sum.present)
            => abacus_sum' = abacus_sum
      ]_vars

(* C7. Idempotent bootstrap, sequential: a startup that begins when no
   operation is in flight, and during which no other task takes a step,
   leaves a counter that is present, zero or not, unchanged and does not
   get to the initializing write. *)
C7_IdempotentBootstrap ==
    [][\A n \in Tasks :
        /\ (pc[n] = "lifespan_set" /\ alone[n]) => ~abacus_sum.present
        /\ (pc[n] \in {"lifespan_get", "lifespan_set"} /\ alone[n]
               /\ abacus_sum.present /\ pc'[n] # pc[n])
              => /\ abacus_sum' = abacus_sum
                 /\ pc'[n] \in {"idle", "down"}
      ]_vars

C7_Witness ==
    \E n \in Tasks :
        /\ pc[n] = "idle"
        /\ alone[n]
        /\ abacus_sum.present
        /\ abacus_sum.value > 0

(* C8. Unavailable store: a store call of add (watch, read or commit, on any
   attempt), get or reset that fails at the connection level ends the
   operation at once with the store-unavailable error (HTTP 500), and the
   counter is left as it was. *)
C8_UnavailableStore ==
    [][\A n \in Tasks :
        (pc[n] \in StoreCallPcs /\ pc'[n] # pc[n] /\ failures_left' < failures_left)
            => /\ pc'[n] = "idle"
               /\ result'[n] = [op |-> OpAt(pc[n]), status |-> "500", value |-> 0]
               /\ abacus_sum' = abacus_sum
               /\ applied'[n] = applied[n]
               /\ watching'[n] = "none"
      ]_vars

C8_Witness ==
    \E n \in Tasks :
        /\ pc[n] = "idle"
        /\ result[n] = [op |-> "add", status |-> "500", value |-> 0]
        /\ failures_left < MaxFailures
        /\ commits # <<>>

(* C9. Exactly-once application: an add call that has returned successfully
   has applied exactly one commit; an add call that is still attempting, or
   that ended in an error, has applied nothing. *)
C9_ExactlyOnce ==
    \A n \in Tasks :
        /\ (result[n].op = "add" /\ result[n].status = "ok") => applied[n] = 1
        /\ pc[n] \in AddPcs => applied[n] = 0 /\ result[n] = NoResult
        /\ (result[n].op = "add" /\ result[n].status \in {"500", "503"}) => applied[n] = 0
        /\ applied[n] <= 1

C9_Witness ==
    \E n, m \in Tasks :
        /\ Returned(n) /\ applied[n] = 1
        /\ result[m] = [op |-> "add", status |-> "500", value |-> 0]
        /\ applied[m] = 0

(* C10. Eventual application within budget: with K callers of one add each,
   a reachable store and fair scheduling, every started add call eventually
   returns successfully; a conflict is only ever counted against a watch
   that another actor's write made dirty, and no call counts more than
   K - 1 conflicts. *)
C10_EventualApplication ==
    /\ [](\A n \in Callers : retry_count[n] <= NumCallers - 1)
    /\ [][\A n \in Callers :
             retry_count'[n] > retry_count[n] => watching[n] = "dirty"]_vars
    /\ \A n \in Callers : (pc[n] \in AddPcs) ~> Returned(n)

C10_Witness ==
    \E n \in Callers :
        /\ retry_count[n] = NumCallers - 1
        /\ \A m \in Callers \ {n} : Returned(m)

(* C11. Error taxonomy of add: a step that ends an add call leaves exactly
   one of three results: the value it has just committed, the 500 of a
   store call that failed in that very step, or the 503, and the 503 only
   with max_retries conflicts counted.  An EXEC that finds its watch dirty
   (WatchError) ends nothing: the call goes on without a result. *)
C11_ErrorTaxonomy ==
    [][\A n \in Tasks :
        /\ (result'[n] # result[n] /\ result'[n].op = "add")
              => /\ pc'[n] = "idle"
                 /\ result'[n].status \in {"ok", "500", "503"}
                 /\ result'[n].status = "ok"
                       => /\ pc[n] = "add_exec" /\ watching[n] = "clean"
                          /\ failures_left' = failures_left
                          /\ result'[n].value = new_sum[n]
                          /\ abacus_sum' = Stored(new_sum[n])
                 /\ result'[n].status = "500"
                       => /\ pc[n] \in AttemptPcs
                          /\ failures_left' < failures_left
                          /\ abacus_sum' = abacus_sum
                 /\ result'[n].status = "503"
                       => /\ retry_count'[n] >= max_retries
                          /\ failures_left' = failures_left
        /\ (pc[n] \in AddPcs /\ pc'[n] = "idle") => result'[n].op = "add"
        /\ (pc[n] = "add_exec" /\ watching[n] = "dirty" /\ pc'[n] # pc[n]
               /\ failures_left' = failures_left)
              => /\ result'[n] = NoResult
                 /\ pc'[n] = "add_sleep"
      ]_vars

C11_Witness ==
    \E n, m \in Tasks :
        /\ n # m
        /\ pc[n] = "idle" /\ result[n] = [op |-> "add", status |-> "500", value |-> 0]
        /\ pc[m] = "add_sleep" /\ retry_count[m] = 1 /\ result[m] = NoResult

(* C12. Reset semantics: as long as the write of a successful reset is the
   latest write to the key, the key holds 0 and every get that reads it
   returns 0, whatever the reset replaced. *)
C12_ResetSemantics ==
    [][\A n \in Tasks :
        /\ last_write.op = "reset" => abacus_sum = Stored(0)
        /\ (pc[n] = "reset_sum" /\ result'[n] = Ok("reset", 0))
              => last_write'.op = "reset" /\ last_write'.replaced = abacus_sum
        /\ (pc[n] = "get_sum" /\ pc'[n] # pc[n] /\ last_write.op = "reset"
               /\ failures_left' = failures_left)
              => result'[n] = Ok("get", 0)
      ]_vars

C12_Witness ==
    \E n, m \in Tasks :
        /\ n # m
        /\ result[m] = Ok("reset", 0)
        /\ last_write.op = "reset"
        /\ ToInt(last_write.replaced) > 5
        /\ pc[n] = "idle" /\ result[n] = Ok("get", 0)

(* C13. stats() is best-effort: the step that makes the store call of
   get_stats always hands a mapping back to health_check, which therefore
   answers as connected; the mapping is empty when the call failed and
   complete when it did not; the step leaves the counter, and the watch of
   every add in flight, as they were. *)
C13_StatsBestEffort ==
    [][\A n \in Tasks :
        (pc[n] = "health_stats" /\ pc'[n] # pc[n])
            => /\ pc'[n] = "idle"
               /\ result'[n] = [op |-> "health", status |-> "healthy",
                                value |-> current_sum[n]]
               /\ failures_left' < failures_left => stats'[n] = {}
               /\ failures_left' = failures_left => stats'[n] = StatsKeys
               /\ abacus_sum' = abacus_sum
               /\ watching' = watching
               /\ history' = history
      ]_vars

C13_Witness ==
    \E n, m \in Tasks :
        /\ pc[n] = "idle"
        /\ result[n].op = "health" /\ result[n].status = "healthy"
        /\ result[n].value > 0
        /\ stats[n] = {}
        /\ failures_left < MaxFailures
        /\ pc[m] = "add_exec" /\ watching[m] = "clean"

(* C14. Termination of add: a call does not retry without bound, however
   long another writer keeps making its commits conflict: a call that is
   still in flight has counted at most max_retries conflicts. *)
C14_BoundedRetrying ==
    \A n \in Tasks : pc[n] \in AddPcs => retry_count[n] <= max_retries

(* The commit attempt of an add whose read predates the write of a reset
   that is the latest write to the key. *)
CommitsAfterReset(n) ==
    /\ pc[n] = "add_exec"
    /\ stale[n]
    /\ last_write.op = "reset"
    /\ pc'[n] # pc[n]
    /\ failures_left' = failures_left

(* A reset writes 0 over whatever the key holds, the result of a commit
   included. *)
ResetOverwrites(n) ==
    (pc[n] = "reset_sum" /\ pc'[n] # pc[n] /\ failures_left' = failures_left)
        => abacus_sum' = Stored(0) /\ last_write'.replaced = abacus_sum

(* C15 as stated. Reset-vs-add race: nothing detects a conflict between
   reset and add.  An add attempt that read the counter before the write of
   a reset and tries to commit after it commits successfully, writing the
   value it read plus its number; an add that commits before the write of a
   reset is overwritten by it. *)
C15_ResetRaceUndetected ==
    [][\A n \in Tasks :
        /\ CommitsAfterReset(n)
              => /\ applied'[n] = applied[n] + 1
                 /\ abacus_sum' = Stored(current_sum[n] + number[n])
        /\ ResetOverwrites(n)
      ]_vars

(* C15, amended. Reset-vs-add race: the write of a reset is detected by the
   watch of an add.  An add attempt that read the counter before the write
   of a reset and tries to commit after it finds its watch dirty, writes
   nothing, counts a conflict and retries; no commit ever writes a value
   computed from a read that predates a reset.  An add that commits before
   the write of a reset is overwritten by it. *)
C15_ResetRaceDetected ==
    [][\A n \in Tasks :
        /\ CommitsAfterReset(n)
              => /\ watching[n] = "dirty"
                 /\ applied'[n] = applied[n]
                 /\ abacus_sum' = abacus_sum
                 /\ pc'[n] = "add_sleep"
                 /\ retry_count'[n] = retry_count[n] + 1
        /\ ResetOverwrites(n)
        /\ ~stale_commit'
      ]_vars

C15_Witness ==
    \E n \in Tasks :
        /\ pc[n] = "add_sleep"
        /\ retry_count[n] = 1
        /\ last_write.op = "reset"
        /\ ToInt(last_write.replaced) > 0
        /\ current_sum[n] = ToInt(last_write.replaced)
        /\ abacus_sum = Stored(0)

(* C16. Transaction independence: every attempt of an add call is made on
   a pipeline object of its own: no pipeline object serves more than one
   attempt, and an attempt is only ever made on an open pipeline.  (The
   pipeline is a local of the call, so no two calls share one.) *)
C16_PipelinePerAttempt ==
    \A n \in Tasks :
        /\ pipe[n].attempts <= 1
        /\ pc[n] \in AddPcs => pipe[n].open

(* C17. get() is a single unconditional read: the one step between its
   start and its return that reaches the store returns what the key holds
   at that step (0 for an absent key), which is what the latest write
   stored (a commit's new sum, or the 0 of a reset or of a startup) or, with
   no write yet, what the key held from the beginning; neither that step nor
   the start of the call changes the key or the watch of any add. *)
C17_GetIsOneRead ==
    [][\A n \in Tasks :
        /\ (pc[n] = "get_sum" /\ pc'[n] # pc[n] /\ failures_left' = failures_left)
              => /\ pc'[n] = "idle"
                 /\ result'[n].op = "get" /\ result'[n].status = "ok"
                 /\ result'[n].value =
                        IF abacus_sum.present THEN abacus_sum.value ELSE 0
        /\ ((pc[n] = "get_sum" \/ pc'[n] = "get_sum") /\ pc'[n] # pc[n])
              => /\ abacus_sum' = abacus_sum
                 /\ watching' = watching
                 /\ history' = history
        /\ last_write.op \in {"reset", "startup"} => abacus_sum = Stored(0)
        /\ last_write.op = "add"
              => commits # <<>> /\ abacus_sum = Stored(commits[Len(commits)].new_sum)
        /\ last_write.op = "none"
              => commits = <<>> /\ (abacus_sum.present => abacus_sum.value = base)
      ]_vars

C17_Witness ==
    \E n, m \in Tasks :
        /\ n # m
        /\ pc[n] = "idle" /\ result[n].op = "get" /\ result[n].status = "ok"
        /\ result[n].value > 5
        /\ last_write.op = "add"
        /\ result[n].value = commits[Len(commits)].new_sum
        /\ pc[m] = "add_exec" /\ watching[m] = "clean"
        /\ current_sum[m] = result[n].value

====
